---- MODULE Spec2Model ----
(***************************************************************************)
(* The interactive mask annotation session of ecole-annotator:             *)
(*   ModularAnnotationMode (mask collection, preview orchestration),       *)
(*   MaskSelector (add / delete / clear / switch),                         *)
(*   useMaskPreview (preview state, debounced direct render),              *)
(*   MaskPreview (what the preview surface shows),                         *)
(*   AnnotationCanvas (geometry, clicks, keyboard delete, request tokens). *)
(*                                                                         *)
(* React state is a variable per useState cell.  A handler runs against    *)
(* the values its closure captured at the render it was created in; a      *)
(* timer or a pending fetch keeps that closure, so its payload records     *)
(* the captured values.  Time is counted in milliseconds and passes from   *)
(* one timer's due instant to the next; the operator acts and responses    *)
(* arrive at those instants, in any order with the callbacks that are due. *)
(* Arrays are 0-indexed in the source; At and SetAt keep the source's      *)
(* indices over 1-indexed sequences.                                       *)
(*                                                                         *)
(* One canvas is mounted for the session (its mode is fixed at mount), of  *)
(* the two component versions in AnnotationCanvas.js the later one, which  *)
(* wires no button to onSavePoints / onSavePolygon.  The Date.now()        *)
(* timestamps of candidates and previews and the mask_input field of the   *)
(* point request are not held.  The render request and its debug fallback  *)
(* resolve in one step.                                                    *)
(*                                                                         *)
(* Six specifications share the state:                                     *)
(*   Spec        the whole interactive session, the image loaded;          *)
(*   CanvasSpec  the canvas operated alone, for longer;                    *)
(*   ScaleSpec   images of several sizes loading while the operator clicks;*)
(*   SaveSpec    candidate management and "Save All Masks";                *)
(*   SurfaceSpec the preview surface with its image load failures;         *)
(*   HitSpec     the canvas with points placed within tolerance of a click.*)
(* userOps, opsBudget, spotsUsed, afterSwitch, netEdits, beforeLastClick,  *)
(* lastHitPoint, quickAdds, sessionOpen, updatedWith, substituted and the  *)
(* variables listed as observation record what happened; no handler reads  *)
(* them.                                                                   *)
(***************************************************************************)
EXTENDS Integers, Sequences, FiniteSets, TLC

\* ------------------------------------------------------------------ bounds

\* operator interactions (clicks, key presses, button presses) per session
MaxUserOps == 3
\* persisted RLEs the region may start with
MaxPersisted == 2
\* cap of the request token counter previewRequestId
MaxRequestId == 2
\* operator interactions per session when only the canvas is operated
MaxCanvasOps == 5
\* clicks per session while images load
MaxScaleOps == 2
\* operator interactions per session when candidates are managed and saved
MaxSaveOps == 3
\* canvas clicks per session followed on the preview surface
MaxSurfaceOps == 2
\* operator interactions per session when points are placed close together
MaxHitOps == 4

\* ------------------------------------------------------- program constants

DoubleClickMs == 300
RightClickDelayMs == 10
RequestDelayMs == 50
ActivateDelayMs == 50
DeletePreviewDelayMs == 50
LoadPreviewDelayMs == 100
MaskSwitchDebounceMs == 300
RenderDebounceMs == 500
BackupDebounceMs == 300
CLICK_TOLERANCE == 2
MinPolygonPoints == 3

\* an age in milliseconds delta later, counted no further than the window it is
\* compared with
Older(age, delta, window) == IF age + delta < window THEN age + delta ELSE window

\* ------------------------------------------------------------ JS values

Null == [null |-> TRUE]

\* seq[i] for a 0-based index; undefined (Null) outside the array
At(seq, i) == IF i >= 0 /\ i < Len(seq) THEN seq[i + 1] ELSE Null

\* the array without its last element, whichever index is named
WithoutLast(seq, index) == SubSeq(seq, 1, Len(seq) - 1)

\* array.filter((_, i) => i !== index)
RemoveAt(seq, index) ==
    [k \in 1..(Len(seq) - (IF index >= 0 /\ index < Len(seq) THEN 1 ELSE 0)) |->
        IF k <= index THEN seq[k] ELSE seq[k + 1]]

Max(a, b) == IF a >= b THEN a ELSE b
Min(a, b) == IF a <= b THEN a ELSE b

\* the test image and the container it is shown in
TestImage == [width |-> 80, height |-> 60]
TestContainer == [width |-> 40, height |-> 30]
\* display offsets (clientX - rect.left, clientY - rect.top) the operator clicks at,
\* in the order the operator first uses them
ClickSpots == <<<<10, 10>>, <<15, 10>>, <<10, 15>>>>

\* ------------------------------------------------------------ display scale

VARIABLES
    scale,                \* AnnotationCanvas: useState(1), set by img.onload
    originalImageSize     \* AnnotationCanvas: useState({ width: 0, height: 0 })

imageVars == <<scale, originalImageSize>>

RECURSIVE GCD(_, _)
GCD(a, b) == IF b = 0 THEN a ELSE GCD(b, a % b)

\* a ratio n/d of non-negative integers, d > 0, in lowest terms
Ratio(n, d) == [n |-> n \div GCD(n, d), d |-> d \div GCD(n, d)]
RatioLess(a, b) == a.n * b.d < b.n * a.d
RatioMin(a, b) == IF RatioLess(b, a) THEN b ELSE a

\* Math.min(containerWidth / img.width, containerHeight / img.height, 0.99)
ComputeScale(img, container) ==
    RatioMin(RatioMin(Ratio(container.width, img.width),
                      Ratio(container.height, img.height)),
             Ratio(99, 100))

\* the coordinate cut off instead of rounded
TruncatedCoord(offset, s) == (offset * s.d) \div s.n

\* Math.round(offset / scale): half rounds up
ToImageCoord(offset, s) == (2 * offset * s.d + s.n) \div (2 * s.n)

ClickPoint(spot) == [x |-> ToImageCoord(spot[1], scale), y |-> ToImageCoord(spot[2], scale)]

\* Math.hypot(point.x - x, point.y - y) < CLICK_TOLERANCE / scale, squared
WithinTolerance(point, x, y) ==
    ((point.x - x) * (point.x - x) + (point.y - y) * (point.y - y)) * scale.n * scale.n
        < (CLICK_TOLERANCE * scale.d) * (CLICK_TOLERANCE * scale.d)

\* the index of the last point within tolerance, or -1
LastHit(points, x, y) ==
    LET hits == {i \in 0..(Len(points) - 1) : WithinTolerance(points[i + 1], x, y)}
    IN  IF hits = {} THEN -1 ELSE CHOOSE i \in hits : \A j \in hits : i >= j

\* the for loop over one array: index of the first point within tolerance, or -1
FirstHit(points, x, y) ==
    LET hits == {i \in 0..(Len(points) - 1) : WithinTolerance(points[i + 1], x, y)}
    IN  IF hits = {} THEN -1 ELSE CHOOSE i \in hits : \A j \in hits : i <= j

PointRef(type, index) == [type |-> type, index |-> index]

FindClickedPoint(isPointPromptMode, pos, neg, poly, x, y) ==
    IF isPointPromptMode
    THEN IF FirstHit(pos, x, y) >= 0 THEN PointRef("positive", FirstHit(pos, x, y))
         ELSE IF FirstHit(neg, x, y) >= 0 THEN PointRef("negative", FirstHit(neg, x, y))
         ELSE Null
    ELSE IF FirstHit(poly, x, y) >= 0 THEN PointRef("polygon", FirstHit(poly, x, y))
         ELSE Null

\* ------------------------------------------------------------------- RLE

\* counts is a run-length string, held as a sequence; <<>> is the empty string
\* (falsy in JS) and PlaceholderCounts is the string "0"
PlaceholderCounts == <<0>>

HasCounts(rle) == "counts" \in DOMAIN rle /\ rle.counts # <<>>
HasSize(rle) == "size" \in DOMAIN rle
\* !rle.counts || !rle.size
InvalidRle(rle) == ~HasCounts(rle) \/ ~HasSize(rle)

\* the payload handed on with every field it came with
KeepAllFields(rle) == rle

\* { counts: rle.counts, size: rle.size }
CleanRle(rle) == [counts |-> rle.counts, size |-> rle.size]

\* JSON.stringify(cleanRle): the values in field order
Stringify(rle) == <<rle.counts, rle.size>>

ImageSizeField == <<TestImage.height, TestImage.width>>

\* the i-th persisted RLE of the region (imageData.parts[activePart].rles[i]), with
\* the fields persistence gives it: handleSaveAllMasks writes counts, size,
\* image_path, is_root_concept and mask_path, and onUpdateAnnotation puts those
\* objects into imageData
PersistedRle(i) ==
    [counts |-> <<100 + i>>, size |-> ImageSizeField, image_path |-> "image",
     is_root_concept |-> FALSE, mask_path |-> Null]

\* ------------------------------------------------------- mask candidates

NoId == <<"undefined", 0>>

\* { ...old, rle, timestamp: Date.now() } where old may be undefined; the
\* timestamp (a cache-busting nonce) is not held
WithRle(old, rle) ==
    IF old = Null
    THEN [id |-> NoId, rle |-> rle, isExisting |-> FALSE]
    ELSE [old EXCEPT !.rle = rle]

\* copy = [...seq]; copy[index] = value  (an index past the end pads with undefined)
SetAt(seq, index, value) ==
    IF index < Len(seq)
    THEN [seq EXCEPT ![index + 1] = value]
    ELSE [k \in 1..(index + 1) |->
            IF k <= Len(seq) THEN seq[k] ELSE IF k = index + 1 THEN value ELSE Null]

\* masks[i]?.rle, with undefined read as null
RleAt(ms, i) == IF At(ms, i) = Null THEN Null ELSE At(ms, i).rle

\* candidates for n persisted RLEs in the reverse of the persisted order
ReversedExistingMasks(n) ==
    [k \in 1..n |-> [id |-> <<"existing", k - 1>>, rle |-> PersistedRle(n - k),
                     isExisting |-> TRUE]]

\* the load effect's candidates for n persisted RLEs
ExistingMasks(n) ==
    [k \in 1..n |-> [id |-> <<"existing", k - 1>>, rle |-> PersistedRle(k - 1),
                     isExisting |-> TRUE]]

EmptyMask(id) == [id |-> id, rle |-> Null, isExisting |-> FALSE]

InitialMasks(n) ==
    IF n > 0 THEN ExistingMasks(n) ELSE <<EmptyMask(<<"new", 0>>)>>

\* the new candidate put in front of the others
PrependedMasks(ms) == <<EmptyMask(<<"new", Len(ms)>>)>> \o ms

\* handleAddMask: [...masks, { id: `new-${masks.length}`, rle: null, ... }]
AddedMasks(ms) == Append(ms, EmptyMask(<<"new", Len(ms)>>))

\* the replacement marked as a persisted candidate
ReplacementMarkedExisting == <<[id |-> <<"new", -1>>, rle |-> Null, isExisting |-> TRUE]>>

\* handleDeleteMask, masks.length <= 1: the replacement collection; its id
\* new-${Date.now()} is no new-${index} id and is held as new-(-1)
ReplacementMasks == <<EmptyMask(<<"new", -1>>)>>

\* the splice one position late
SplicedOneLate(ms, index) == RemoveAt(ms, index + 1)

\* handleDeleteMask: newMasks.splice(activeMaskIndex, 1)
SplicedMasks(ms, index) == RemoveAt(ms, index)

\* Math.min(activeMaskIndex, newMasks.length - 1)
IndexAfterDelete(ms, index) == Min(index, Len(SplicedMasks(ms, index)) - 1)

\* handleClearMask: { ...masks[i], rle: null, timestamp }
ClearedMasks(ms, index) == SetAt(ms, index, WithRle(At(ms, index), Null))

\* ------------------------------------------------------------------ state

VARIABLES
    mode,                 \* AnnotationCanvas prop mode: "point_prompt" | "polygon"
    masks,                \* ModularAnnotationMode: useState([])
    activeMaskIndex,      \* ModularAnnotationMode: useState(0)
    error,                \* ModularAnnotationMode: useState(null)
    previewMask,          \* useMaskPreview: useState(null)
    previewBase64Image,   \* useMaskPreview: useState(null)
    isGenerating,         \* useMaskPreview: useState(false)
    previewTimeoutId,     \* window.previewTimeoutId
    maskSwitchTimeoutId,  \* window.maskSwitchTimeoutId
    positivePoints,       \* AnnotationCanvas state
    negativePoints,
    polygonPoints,
    selectedPoint,
    previewRequestId,
    sinceLastClick,       \* currentTime - lastClickTime, up to the double-click window
    lastClickedPoint,
    keyDownClosure,       \* the parent values the registered keydown listener captured
    timers,               \* pending setTimeout callbacks in firing order, with what they captured
    inflight,             \* fetches awaiting their response, with what the awaiting code captured
    userOps,              \* operator interactions so far
    opsBudget,            \* operator interactions the session is followed for
    netEdits,             \* point additions so far minus point deletions so far
    beforeLastClick,      \* the selection before the latest run of handleCanvasClick; Null
                          \* once the operator has acted otherwise since
    lastHitPoint,         \* the point the latest run of handleCanvasClick hit and recorded
                          \* in lastClickedPoint, as it was then; Null when it recorded none
    quickAdds,            \* length of the current run of point additions that began on an
                          \* empty geometry, each within BackupDebounceMs of the one
                          \* before; 0 once anything else happened to the geometry
    spotsUsed,            \* how many of ClickSpots the operator has pressed on so far
    afterSwitch,          \* the last operator action was a mask switch, and since then no
                          \* callback other than the switch debounce and the render
                          \* debounce has run and every render answered gave its image
    isLoading,            \* ModularAnnotationMode: useState(false)
    sessionOpen,          \* the parent has not been told to close the session (onCancel)
    updatedWith,          \* what onUpdateAnnotation was last called with; Null before
    substituted,          \* the elements the latest onError of the URL-based preview image
                          \* put in its place; Null before any
    \* observation only: never read by a handler
    highestToken,         \* highest request token stamped so far
    highestSent,          \* highest token of a generation request handed to the backend
    sinceSend,            \* time since the last generation request was sent, up to the debounce window
    appliedToken,         \* highest token of a generation response applied so far
    intentEpoch           \* operator mask switches and geometry resets so far

\* fixed at mount
fixedVars == <<mode, opsBudget>>
saveVars == <<isLoading, sessionOpen, updatedWith>>
surfaceVars == <<substituted>>
\* what the handlers of the selector, the canvas and the preview leave as it is
restVars == <<fixedVars, surfaceVars, imageVars, saveVars>>
parentVars == <<masks, activeMaskIndex, error>>
hookVars == <<previewMask, previewBase64Image, previewTimeoutId, timers>>
pointVars == <<positivePoints, negativePoints, polygonPoints>>
canvasVars == <<positivePoints, negativePoints, polygonPoints, selectedPoint,
                previewRequestId, sinceLastClick, lastClickedPoint, keyDownClosure,
                highestToken, netEdits, beforeLastClick, lastHitPoint, quickAdds>>
observedVars == <<highestSent, sinceSend, appliedToken, intentEpoch>>
vars == <<scale, originalImageSize, isLoading, sessionOpen, updatedWith, substituted,
          mode, masks, activeMaskIndex, error, previewMask, previewBase64Image,
          isGenerating, previewTimeoutId, maskSwitchTimeoutId, positivePoints,
          negativePoints, polygonPoints, selectedPoint, previewRequestId,
          sinceLastClick, lastClickedPoint, keyDownClosure, timers, inflight,
          userOps, opsBudget, spotsUsed, afterSwitch, netEdits, beforeLastClick,
          lastHitPoint, quickAdds, highestToken, highestSent, sinceSend, appliedToken,
          intentEpoch>>

isPointPromptMode == mode = "point_prompt"

\* what handlePreviewMask / handleMaskIndexChange of the current render close over
ParentClosure == [masks |-> masks, active |-> activeMaskIndex, isGen |-> isGenerating]

\* what handleCanvasClick of the current render closes over
CanvasClosure ==
    [pos |-> positivePoints, neg |-> negativePoints, poly |-> polygonPoints,
     sel |-> selectedPoint, lastPt |-> lastClickedPoint, lastAge |-> sinceLastClick,
     reqId |-> previewRequestId, parent |-> ParentClosure]

\* ------------------------------------------------------------------ timers

Timer(id, rem, kind, captured) == [id |-> id, rem |-> rem, kind |-> kind, captured |-> captured]

\* the least positive handle not in used
FreeId(used) ==
    CHOOSE i \in 1..(Cardinality(used) + 1) : i \notin used /\ \A j \in 1..(i - 1) : j \in used

\* the handle of a timer whose setTimeout result the code drops
Dropped == 0

\* the table with t queued behind every timer due no later than t
Queued(tms, t) ==
    LET k == Cardinality({j \in 1..Len(tms) : tms[j].rem <= t.rem})
    IN  SubSeq(tms, 1, k) \o <<t>> \o SubSeq(tms, k + 1, Len(tms))

\* if (id) clearTimeout(id): handles are positive, so a dropped one is never cleared
Cancel(tms, id) == SelectSeq(tms, LAMBDA t : t.id = Dropped \/ t.id # id)

\* the pending timer the event loop runs next: the earliest due, then the earliest set
IsNextTimer(t) == timers # <<>> /\ t = Head(timers) /\ t.rem = 0

\* ------------------------------------------------------- useMaskPreview hook

\* the hook's state and the timer table, threaded through one handler run
Hook(tms) == [pm |-> previewMask, img |-> previewBase64Image, tid |-> previewTimeoutId,
              tms |-> tms]

CommitHook(h) ==
    /\ previewMask' = h.pm
    /\ previewBase64Image' = h.img
    /\ previewTimeoutId' = h.tid
    /\ timers' = h.tms

\* the handle the next setTimeout returns, when the code keeps it: one that no
\* pending timer has and no window.*TimeoutId holds
NewTimerId(h) ==
    FreeId({h.tms[k].id : k \in 1..Len(h.tms)} \cup {h.tid, maskSwitchTimeoutId})

\* setTimeout(callback, ms), the handle dropped
SetTimeout(h, ms, kind, captured) ==
    [h EXCEPT !.tms = Queued(h.tms, Timer(Dropped, ms, kind, captured))]

\* id = setTimeout(callback, ms), the handle kept
SetHeldTimeout(h, ms, kind, captured) ==
    [h EXCEPT !.tms = Queued(h.tms, Timer(NewTimerId(h), ms, kind, captured))]

\* clearPreview()
ClearPreview(h) == [h EXCEPT !.pm = Null, !.img = Null]

\* debouncedGeneratePreview(rleData)
DebouncedGeneratePreview(h, rle) ==
    LET cleared == [h EXCEPT !.tms = Cancel(h.tms, h.tid)]
    IN  [SetHeldTimeout(cleared, RenderDebounceMs, "render", [rle |-> rle])
            EXCEPT !.tid = NewTimerId(cleared)]

\* updateMaskPreview(rle)
UpdateMaskPreview(h, rle) ==
    IF rle = Null THEN [h EXCEPT !.pm = Null, !.img = Null]
    ELSE IF InvalidRle(rle) THEN h
    ELSE DebouncedGeneratePreview(
            [h EXCEPT !.pm = [rleData |-> Stringify(CleanRle(rle))]],
            CleanRle(rle))

\* handleMaskIndexChange(newIndex) as created in a render that saw masks ms:
\* its effect on the hook (setActiveMaskIndex(newIndex) is the caller's conjunct)
MaskIndexChangePreview(h, ms, newIndex) ==
    IF RleAt(ms, newIndex) # Null
    THEN UpdateMaskPreview(h, RleAt(ms, newIndex))
    ELSE ClearPreview(h)

\* ------------------------------------------------------------------- Init

\* the canvas before its image has loaded
ImageLoading ==
    /\ scale = Ratio(1, 1)
    /\ originalImageSize = [width |-> 0, height |-> 0]

\* the canvas once the test image has loaded in the test container
ImageLoaded ==
    /\ scale = ComputeScale(TestImage, TestContainer)
    /\ originalImageSize = TestImage

\* the state after mount but for the image, for a region with one of the given
\* numbers of persisted masks: the load effect has run (part_000 47-89)
Constructed(persisted, budget) ==
    /\ mode \in {"point_prompt", "polygon"}
    /\ \E n \in persisted :
        /\ masks = InitialMasks(n)
        /\ timers = IF n > 0
                    THEN <<Timer(Dropped, LoadPreviewDelayMs, "loadPreview",
                                 [rle |-> PersistedRle(0)])>>
                    ELSE <<>>
    /\ activeMaskIndex = 0
    /\ error = Null
    /\ previewMask = Null
    /\ previewBase64Image = Null
    /\ isGenerating = FALSE
    /\ previewTimeoutId = 0
    /\ maskSwitchTimeoutId = 0
    /\ positivePoints = <<>>
    /\ negativePoints = <<>>
    /\ polygonPoints = <<>>
    /\ selectedPoint = Null
    /\ previewRequestId = 0
    /\ sinceLastClick = DoubleClickMs
    /\ lastClickedPoint = Null
    /\ keyDownClosure = [masks |-> masks, active |-> 0, isGen |-> FALSE]
    /\ inflight = {}
    /\ userOps = 0
    /\ opsBudget = budget
    /\ netEdits = 0
    /\ beforeLastClick = Null
    /\ quickAdds = 0
    /\ lastHitPoint = Null
    /\ spotsUsed = 0
    /\ afterSwitch = FALSE
    /\ highestToken = 0
    /\ highestSent = 0
    /\ sinceSend = BackupDebounceMs
    /\ appliedToken = 0
    /\ intentEpoch = 0
    /\ isLoading = FALSE
    /\ sessionOpen = TRUE
    /\ updatedWith = Null
    /\ substituted = Null

\* the state after mount, the image loaded
Mounted(persisted, budget) == Constructed(persisted, budget) /\ ImageLoaded

Init == Mounted(0..MaxPersisted, MaxUserOps)

\* the operator acts on an open session, up to the budget
UserMay == sessionOpen /\ userOps < opsBudget

\* the operator and the clock, as opposed to the program's state
userVars == <<userOps, spotsUsed, afterSwitch>>

\* a press lands on a spot pressed before or on the next one of ClickSpots
MayPress(k) == k \in 1..Len(ClickSpots) /\ k <= spotsUsed + 1

\* ------------------------------------------------------------ MaskSelector

\* handleMaskChange(index, mask): a click on the button of candidate index
handleMaskChange(index) ==
    LET mask == At(masks, index)
        h1 == MaskIndexChangePreview(Hook(timers), masks, index)
        h2 == [h1 EXCEPT !.tms = Cancel(h1.tms, maskSwitchTimeoutId)]
    IN  /\ UserMay
        /\ index \in 0..(Len(masks) - 1)
        /\ mask # Null
        /\ activeMaskIndex' = index
        /\ IF mask.rle # Null
           THEN /\ maskSwitchTimeoutId' = NewTimerId(h2)
                /\ CommitHook(SetHeldTimeout(h2, MaskSwitchDebounceMs, "maskSwitch",
                                             [rle |-> mask.rle]))
           ELSE /\ maskSwitchTimeoutId' = maskSwitchTimeoutId
                /\ CommitHook(ClearPreview(h1))
        /\ intentEpoch' = intentEpoch + (IF index # activeMaskIndex THEN 1 ELSE 0)
        /\ userOps' = userOps + 1
        /\ spotsUsed' = spotsUsed
        /\ afterSwitch' = TRUE
        /\ UNCHANGED <<restVars, masks, error, isGenerating, canvasVars, inflight,
                       highestSent, sinceSend, appliedToken>>

\* the setTimeout callback of handleMaskChange: onPreviewMask(mask.rle)
maskSwitchTimer(t) ==
    /\ IsNextTimer(t) /\ t.kind = "maskSwitch"
    /\ CommitHook(UpdateMaskPreview(Hook(Tail(timers)), t.captured.rle))
    /\ UNCHANGED <<restVars, parentVars, isGenerating, maskSwitchTimeoutId, canvasVars,
                   inflight, userVars, observedVars>>

\* handleAddMask
handleAddMask ==
    LET newMaskIndex == Len(masks)
        h1 == ClearPreview(Hook(timers))
        h2 == SetTimeout(h1, ActivateDelayMs, "activateAdded",
                         [index |-> newMaskIndex, masks |-> masks])
    IN  /\ UserMay
        /\ masks' = AddedMasks(masks)
        /\ CommitHook(h2)
        /\ userOps' = userOps + 1
        /\ spotsUsed' = spotsUsed
        /\ afterSwitch' = FALSE
        /\ UNCHANGED <<restVars, activeMaskIndex, error, isGenerating, maskSwitchTimeoutId,
                       canvasVars, inflight, observedVars>>

\* the setTimeout callback of handleAddMask: setActiveMaskIndex(newMaskIndex)
activateAddedTimer(t) ==
    /\ IsNextTimer(t) /\ t.kind = "activateAdded"
    /\ activeMaskIndex' = t.captured.index
    /\ CommitHook(MaskIndexChangePreview(Hook(Tail(timers)), t.captured.masks,
                                         t.captured.index))
    /\ afterSwitch' = FALSE
    /\ UNCHANGED <<restVars, masks, error, isGenerating, maskSwitchTimeoutId, canvasVars,
                   inflight, userOps, spotsUsed, observedVars>>

\* handleDeleteMask
handleDeleteMask ==
    LET newMasks == SplicedMasks(masks, activeMaskIndex)
        newIndex == IndexAfterDelete(masks, activeMaskIndex)
        h1 == ClearPreview(Hook(timers))
        only == MaskIndexChangePreview(h1, masks, 0)
        h2 == MaskIndexChangePreview(h1, masks, newIndex)
        h3 == SetTimeout(h2, DeletePreviewDelayMs, "previewAfterDelete",
                         [rle |-> RleAt(newMasks, newIndex)])
    IN  /\ UserMay
        /\ IF Len(masks) <= 1
           THEN /\ masks' = ReplacementMasks
                /\ activeMaskIndex' = 0
                /\ CommitHook(only)
           ELSE /\ masks' = newMasks
                /\ activeMaskIndex' = newIndex
                /\ CommitHook(h3)
        /\ userOps' = userOps + 1
        /\ spotsUsed' = spotsUsed
        /\ afterSwitch' = FALSE
        /\ UNCHANGED <<restVars, error, isGenerating, maskSwitchTimeoutId, canvasVars,
                       inflight, observedVars>>

\* the setTimeout callback of handleDeleteMask
previewAfterDeleteTimer(t) ==
    /\ IsNextTimer(t) /\ t.kind = "previewAfterDelete"
    /\ CommitHook(IF t.captured.rle # Null
                  THEN UpdateMaskPreview(Hook(Tail(timers)), t.captured.rle)
                  ELSE Hook(Tail(timers)))
    /\ afterSwitch' = FALSE
    /\ UNCHANGED <<restVars, parentVars, isGenerating, maskSwitchTimeoutId, canvasVars,
                   inflight, userOps, spotsUsed, observedVars>>

\* handleClearMask
handleClearMask ==
    /\ UserMay
    /\ masks' = ClearedMasks(masks, activeMaskIndex)
    /\ CommitHook(ClearPreview(Hook(timers)))
    /\ userOps' = userOps + 1
    /\ spotsUsed' = spotsUsed
    /\ afterSwitch' = FALSE
    /\ UNCHANGED <<restVars, activeMaskIndex, error, isGenerating, maskSwitchTimeoutId,
                   canvasVars, inflight, observedVars>>

\* the timeout callback of the load effect: updateMaskPreview(initialRle)
loadPreviewTimer(t) ==
    /\ IsNextTimer(t) /\ t.kind = "loadPreview"
    /\ CommitHook(UpdateMaskPreview(Hook(Tail(timers)), t.captured.rle))
    /\ afterSwitch' = FALSE
    /\ UNCHANGED <<restVars, parentVars, isGenerating, maskSwitchTimeoutId, canvasVars,
                   inflight, userOps, spotsUsed, observedVars>>

\* ------------------------------------------------------------------- time

\* the time until the next callback is due; with none pending, long enough for
\* every window to close
UntilNextTimer(tms) ==
    IF tms = <<>> THEN Max(DoubleClickMs, BackupDebounceMs) ELSE Head(tms).rem

\* time passes until the next callback is due, once every callback that is due has run
Advance ==
    /\ UntilNextTimer(timers) > 0
    /\ timers' = [k \in 1..Len(timers) |->
                    [timers[k] EXCEPT !.rem = @ - UntilNextTimer(timers)]]
    /\ sinceLastClick' = Older(sinceLastClick, UntilNextTimer(timers), DoubleClickMs)
    /\ sinceSend' = Older(sinceSend, UntilNextTimer(timers), BackupDebounceMs)
    /\ UNCHANGED <<restVars, parentVars, previewMask, previewBase64Image, isGenerating,
                   previewTimeoutId, maskSwitchTimeoutId, positivePoints, negativePoints,
                   polygonPoints, selectedPoint, previewRequestId, lastClickedPoint,
                   keyDownClosure, highestToken, netEdits, beforeLastClick, lastHitPoint,
                   quickAdds, inflight,
                   userVars, highestSent, appliedToken, intentEpoch>>

\* -------------------------------------------------------- AnnotationCanvas

\* the data object handed to onPreviewMask: point mode carries positivePoints and
\* negativePoints, polygon mode polygonPoints; an absent array is held as empty
PreviewData(pos, neg, poly) ==
    IF isPointPromptMode
    THEN [positivePoints |-> pos, negativePoints |-> neg, polygonPoints |-> <<>>]
    ELSE [positivePoints |-> <<>>, negativePoints |-> <<>>, polygonPoints |-> poly]

\* const newRequestId = previewRequestId + 1
NextRequestId(requestId) == requestId + 1

\* what a deferred onPreviewMask call captured: the data, the token, the
\* handlePreviewMask closure of the scheduling render, and whether the callback
\* calls onPreviewMask at all (polygon deletes below three vertices do not);
\* epoch notes the switches and resets seen when the token was stamped
PreviewCall(pos, neg, poly, token, parent, calls) ==
    [data |-> PreviewData(pos, neg, poly), token |-> token, parent |-> parent,
     calls |-> calls, epoch |-> intentEpoch]

\* the backup effect (AnnotationCanvas 887-942): requestPreview is a new function
\* object on every run, so its prevCacheKey starts undefined and is set to cacheKey
\* just before the comparison that would schedule the debounced request
BackupEffectSchedules(cacheKey) ==
    LET prevCacheKey == cacheKey
    IN  prevCacheKey # cacheKey

\* the timers a geometry edit leaves behind: the direct trigger, if any, and the
\* backup effect's debounced one
EditTimers(h, direct, call, pos, neg, poly) ==
    LET h1 == IF direct THEN SetTimeout(h, RequestDelayMs, "requestPreview", call) ELSE h
    IN  IF BackupEffectSchedules(<<isPointPromptMode, pos, neg, poly>>)
        THEN SetTimeout(h1, BackupDebounceMs, "backupPreview", call)
        ELSE h1

\* array.filter((_, i) => i !== ref.index) for the array ref.type names
WithoutPoint(points, type, ref) == IF ref.type = type THEN RemoveAt(points, ref.index) ELSE points

\* a hit within the double-click window, whatever the click before it hit
HitWithinWindow(clickedPoint, lastPoint, age) ==
    /\ clickedPoint # Null
    /\ age < DoubleClickMs

\* the double-click test of handleCanvasClick (750-755)
IsDoubleClick(clickedPoint, lastPoint, age) ==
    /\ clickedPoint # Null
    /\ lastPoint # Null
    /\ clickedPoint = lastPoint
    /\ age < DoubleClickMs

\* the points of the geometry, of whatever kind
PointCount == Len(positivePoints) + Len(negativePoints) + Len(polygonPoints)

\* quickAdds after a point addition made now
QuickAddsAfterAdd ==
    IF PointCount = 0 THEN 1
    ELSE IF quickAdds > 0 /\ sinceLastClick < BackupDebounceMs THEN quickAdds + 1
    ELSE 0

\* the hit point selected whatever the selection was
AlwaysSelected(selected, clickedPoint) == clickedPoint

\* selectedPoint && same type && same index ? null : clickedPoint
ToggledSelection(selected, clickedPoint) ==
    IF selected = clickedPoint THEN Null ELSE clickedPoint

\* handleCanvasClick(e) as created in the render that saw closure c, run now on the
\* timer table tms
HandleCanvasClick(c, spot, button, tms) ==
    LET p == ClickPoint(spot)
        clickedPoint == FindClickedPoint(isPointPromptMode, c.pos, c.neg, c.poly, p.x, p.y)
        newRequestId == NextRequestId(c.reqId)
        \* double-click branch
        delPos == WithoutPoint(c.pos, "positive", clickedPoint)
        delNeg == WithoutPoint(c.neg, "negative", clickedPoint)
        delPoly == WithoutPoint(c.poly, "polygon", clickedPoint)
        \* add branch
        addPos == IF isPointPromptMode /\ button = 0 THEN Append(c.pos, p) ELSE c.pos
        addNeg == IF isPointPromptMode /\ button = 2 THEN Append(c.neg, p) ELSE c.neg
        addPoly == IF isPointPromptMode THEN c.poly ELSE Append(c.poly, p)
        addTriggers == IF isPointPromptMode THEN button \in {0, 2}
                       ELSE Len(addPoly) >= MinPolygonPoints
        \* the point findClickedPoint found
        hitPoint == CASE clickedPoint.type = "positive" -> At(c.pos, clickedPoint.index)
                      [] clickedPoint.type = "negative" -> At(c.neg, clickedPoint.index)
                      [] OTHER -> At(c.poly, clickedPoint.index)
    IN  IF IsDoubleClick(clickedPoint, c.lastPt, c.lastAge)
        THEN /\ positivePoints' = IF clickedPoint.type = "positive" THEN delPos ELSE positivePoints
             /\ negativePoints' = IF clickedPoint.type = "negative" THEN delNeg ELSE negativePoints
             /\ polygonPoints' = IF clickedPoint.type = "polygon" THEN delPoly ELSE polygonPoints
             /\ selectedPoint' = Null
             /\ lastClickedPoint' = Null
             /\ sinceLastClick' = DoubleClickMs
             /\ previewRequestId' = newRequestId
             /\ highestToken' = Max(highestToken, newRequestId)
             /\ netEdits' = netEdits - 1
             /\ quickAdds' = 0
             /\ lastHitPoint' = Null
             /\ CommitHook(EditTimers(Hook(tms), TRUE,
                    PreviewCall(delPos, delNeg, delPoly, newRequestId, c.parent,
                                isPointPromptMode \/ Len(delPoly) >= MinPolygonPoints),
                    delPos, delNeg, delPoly))
        ELSE IF clickedPoint # Null
        THEN /\ sinceLastClick' = 0
             /\ lastClickedPoint' = clickedPoint
             /\ selectedPoint' = ToggledSelection(c.sel, clickedPoint)
             /\ quickAdds' = 0
             /\ lastHitPoint' = hitPoint
             /\ CommitHook(Hook(tms))
             /\ UNCHANGED <<positivePoints, negativePoints, polygonPoints,
                            previewRequestId, highestToken, netEdits>>
        ELSE /\ sinceLastClick' = 0
             /\ lastClickedPoint' = Null
             /\ positivePoints' = IF isPointPromptMode /\ button = 0 THEN addPos ELSE positivePoints
             /\ negativePoints' = IF isPointPromptMode /\ button = 2 THEN addNeg ELSE negativePoints
             /\ polygonPoints' = IF isPointPromptMode THEN polygonPoints ELSE addPoly
             /\ previewRequestId' = IF addTriggers THEN newRequestId ELSE previewRequestId
             /\ highestToken' = IF addTriggers THEN Max(highestToken, newRequestId)
                                ELSE highestToken
             /\ selectedPoint' = Null
             /\ netEdits' = netEdits + 1
             /\ quickAdds' = QuickAddsAfterAdd
             /\ lastHitPoint' = Null
             /\ CommitHook(EditTimers(Hook(tms), addTriggers,
                    PreviewCall(addPos, addNeg, addPoly, newRequestId, c.parent, TRUE),
                    addPos, addNeg, addPoly))

\* onClick={handleCanvasClick}: a primary-button click at display offset spot
canvasClickAt(spot) ==
    /\ UserMay
    /\ HandleCanvasClick(CanvasClosure, spot, 0, timers)
    /\ beforeLastClick' = [sel |-> selectedPoint]
    /\ previewRequestId' <= MaxRequestId
    /\ keyDownClosure' = ParentClosure
    /\ userOps' = userOps + 1
    /\ afterSwitch' = FALSE
    /\ UNCHANGED <<restVars, parentVars, isGenerating,
                   maskSwitchTimeoutId, inflight, observedVars>>

\* a primary-button click at the k-th of ClickSpots
canvasClick(k) ==
    /\ MayPress(k)
    /\ canvasClickAt(ClickSpots[k])
    /\ spotsUsed' = Max(spotsUsed, k)

\* onMouseDown with e.button === 2: setTimeout(() => handleCanvasClick(e), 10)
canvasRightMouseDownAt(spot) ==
    /\ UserMay
    /\ NextRequestId(previewRequestId) <= MaxRequestId
    /\ CommitHook(SetTimeout(Hook(timers), RightClickDelayMs, "rightClick",
                             [closure |-> CanvasClosure, spot |-> spot]))
    /\ userOps' = userOps + 1
    /\ afterSwitch' = FALSE
    /\ UNCHANGED <<restVars, parentVars, isGenerating, maskSwitchTimeoutId, canvasVars,
                   inflight, observedVars>>

\* a secondary-button press at the k-th of ClickSpots
canvasRightMouseDown(k) ==
    /\ MayPress(k)
    /\ canvasRightMouseDownAt(ClickSpots[k])
    /\ spotsUsed' = Max(spotsUsed, k)

\* the timeout callback of onMouseDown: handleCanvasClick of the mousedown's render,
\* whose lastClickTime is by now RightClickDelayMs older
rightClickTimer(t) ==
    /\ IsNextTimer(t) /\ t.kind = "rightClick"
    /\ HandleCanvasClick(
            [t.captured.closure EXCEPT
                !.lastAge = Older(@, RightClickDelayMs, DoubleClickMs)],
            t.captured.spot, 2, Tail(timers))
    /\ beforeLastClick' = [sel |-> selectedPoint]
    /\ keyDownClosure' = ParentClosure
    /\ afterSwitch' = FALSE
    /\ UNCHANGED <<restVars, parentVars, isGenerating, maskSwitchTimeoutId, inflight,
                   userOps, spotsUsed, observedVars>>

\* handleKeyDown with Delete or Backspace; the listener is the one registered after
\* the last change of selectedPoint or of a point array
handleKeyDown ==
    LET delPos == WithoutPoint(positivePoints, "positive", selectedPoint)
        delNeg == WithoutPoint(negativePoints, "negative", selectedPoint)
        delPoly == WithoutPoint(polygonPoints, "polygon", selectedPoint)
        newRequestId == NextRequestId(previewRequestId)
    IN  /\ UserMay
        /\ selectedPoint # Null
        /\ newRequestId <= MaxRequestId
        /\ positivePoints' = delPos
        /\ negativePoints' = delNeg
        /\ polygonPoints' = delPoly
        /\ selectedPoint' = Null
        /\ previewRequestId' = newRequestId
        /\ highestToken' = Max(highestToken, newRequestId)
        /\ netEdits' = netEdits - 1
        /\ quickAdds' = 0
        /\ lastHitPoint' = lastHitPoint
        /\ beforeLastClick' = Null
        /\ CommitHook(EditTimers(Hook(timers), TRUE,
                PreviewCall(delPos, delNeg, delPoly, newRequestId, keyDownClosure,
                            isPointPromptMode \/ Len(delPoly) >= MinPolygonPoints),
                delPos, delNeg, delPoly))
        /\ keyDownClosure' = ParentClosure
        /\ userOps' = userOps + 1
        /\ spotsUsed' = spotsUsed
        /\ afterSwitch' = FALSE
        /\ UNCHANGED <<restVars, parentVars, isGenerating, maskSwitchTimeoutId, sinceLastClick,
                       lastClickedPoint, inflight, observedVars>>

\* handleReset
handleReset ==
    /\ UserMay
    /\ positivePoints' = IF isPointPromptMode THEN <<>> ELSE positivePoints
    /\ negativePoints' = IF isPointPromptMode THEN <<>> ELSE negativePoints
    /\ polygonPoints' = IF isPointPromptMode THEN polygonPoints ELSE <<>>
    /\ selectedPoint' = Null
    /\ netEdits' = 0
    /\ quickAdds' = 0
    /\ lastHitPoint' = lastHitPoint
    /\ beforeLastClick' = Null
    /\ keyDownClosure' = ParentClosure
    /\ CommitHook(EditTimers(Hook(timers), FALSE, Null,
                             positivePoints', negativePoints', polygonPoints'))
    /\ intentEpoch' = intentEpoch + 1
    /\ userOps' = userOps + 1
    /\ spotsUsed' = spotsUsed
    /\ afterSwitch' = FALSE
    /\ UNCHANGED <<restVars, parentVars, isGenerating, maskSwitchTimeoutId, previewRequestId,
                   highestToken, sinceLastClick, lastClickedPoint, inflight, highestSent,
                   sinceSend, appliedToken>>

\* ------------------------------------------- preview generation (parent)

\* fetch(...): the call is in flight until the collaborator answers
Fetch(id, kind, captured) == [id |-> id, kind |-> kind, captured |-> captured]

\* which branch of handlePreviewMask the data takes
PreviewBranch(data) ==
    IF Len(data.polygonPoints) >= MinPolygonPoints THEN "polygon"
    ELSE IF Len(data.positivePoints) > 0 THEN "points"
    ELSE "none"

\* generatePolygonMask returns null at once: points.length < 3 || isGenerating
PolygonSkipped(points, isGen) == Len(points) < MinPolygonPoints \/ isGen

\* whether the deferred call reaches a fetch, and of which endpoint
CallBranch(call) == IF call.calls THEN PreviewBranch(call.data) ELSE "none"
CallFetches(call) ==
    \/ CallBranch(call) = "points"
    \/ /\ CallBranch(call) = "polygon"
       /\ ~PolygonSkipped(call.data.polygonPoints, call.parent.isGen)

\* the deferred onPreviewMask(data) of a geometry edit: handlePreviewMask up to its fetch
requestPreviewTimer(t) ==
    LET call == t.captured
        fetches == CallFetches(call)
    IN  /\ IsNextTimer(t) /\ t.kind \in {"requestPreview", "backupPreview"}
        /\ timers' = Tail(timers)
        /\ inflight' = IF fetches
                       THEN inflight \cup
                            {Fetch(FreeId({f.id : f \in inflight}), CallBranch(call), call)}
                       ELSE inflight
        /\ isGenerating' = IF fetches /\ CallBranch(call) = "polygon" THEN TRUE
                           ELSE isGenerating
        /\ highestSent' = IF fetches THEN Max(highestSent, call.token) ELSE highestSent
        /\ sinceSend' = IF fetches THEN 0 ELSE sinceSend
        /\ afterSwitch' = FALSE
        /\ UNCHANGED <<restVars, parentVars, previewMask, previewBase64Image,
                       previewTimeoutId, maskSwitchTimeoutId, canvasVars, userOps,
                       spotsUsed, appliedToken, intentEpoch>>

\* the collaborator's mask for a prompt: determined by the prompt, with a field
\* beyond counts and size
GeneratedRle(data) ==
    [counts |-> <<data.positivePoints, data.negativePoints, data.polygonPoints>>,
     size |-> ImageSizeField, score |-> 1]

\* what a generation endpoint may answer: a body with the mask; a body whose rle
\* lacks counts; a body without rle; a status that is not ok; or the fetch rejects
GenerationAnswers == {"valid", "invalid", "noRle", "httpError", "networkError"}

\* the rle of the answer's body; Null when there is no body or no rle in it
AnswerRle(answer, data) ==
    CASE answer = "valid" -> GeneratedRle(data)
      [] answer = "invalid" -> [size |-> ImageSizeField]
      [] OTHER -> Null

\* { counts: "0", size: [imageData.height || 315, imageData.width || 474] }
PlaceholderRle == [counts |-> PlaceholderCounts, size |-> ImageSizeField]

\* what generatePolygonMask returns for the answer
PolygonResult(answer, data) ==
    IF AnswerRle(answer, data) = Null THEN Null
    ELSE IF InvalidRle(AnswerRle(answer, data)) THEN PlaceholderRle
    ELSE CleanRle(AnswerRle(answer, data))

\* the error generatePolygonMask sets for the answer
PolygonError(answer) ==
    CASE answer \in {"httpError", "networkError"} ->
            [message |-> "Error generating polygon mask"]
      [] answer = "noRle" -> [message |-> "Failed to generate polygon mask"]
      [] OTHER -> Null

\* the error handlePreviewMask's catch sets when its own fetch rejects
PointsError(answer) ==
    IF answer = "networkError" THEN [message |-> "Failed to generate preview"] ELSE Null

\* the error the answer leaves, if any
GenerationError(kind, answer) ==
    IF kind = "polygon" THEN PolygonError(answer) ELSE PointsError(answer)

\* the rle handlePreviewMask holds after its await
AwaitedRle(kind, answer, data) ==
    IF kind = "polygon" THEN PolygonResult(answer, data) ELSE AnswerRle(answer, data)

\* handlePreviewMask 397-402: whether the awaited rle of the request stamped
\* token is applied
ResponseApplies(rle, token) == rle # Null /\ ~InvalidRle(rle)

\* updatedMasks = [...masks]; updatedMasks[activeMaskIndex] = {..., rle, timestamp}
AppliedMasks(parent, rle) ==
    SetAt(parent.masks, parent.active, WithRle(At(parent.masks, parent.active), rle))

\* the generation fetch r resolves with answer and handlePreviewMask resumes
generateResponds(r, answer) ==
    LET call == r.captured
        rle == AwaitedRle(r.kind, answer, call.data)
        applies == ResponseApplies(rle, call.token)
    IN  /\ r \in inflight
        /\ r.kind \in {"points", "polygon"}
        /\ inflight' = inflight \ {r}
        /\ isGenerating' = IF r.kind = "polygon" THEN FALSE ELSE isGenerating
        /\ error' = IF GenerationError(r.kind, answer) # Null
                    THEN GenerationError(r.kind, answer) ELSE error
        /\ masks' = IF applies THEN AppliedMasks(call.parent, CleanRle(rle)) ELSE masks
        /\ CommitHook(IF applies THEN UpdateMaskPreview(Hook(timers), CleanRle(rle))
                      ELSE Hook(timers))
        /\ appliedToken' = IF applies THEN Max(appliedToken, call.token) ELSE appliedToken
        /\ afterSwitch' = FALSE
        /\ UNCHANGED <<restVars, activeMaskIndex, maskSwitchTimeoutId, canvasVars, userOps,
                       spotsUsed, highestSent, sinceSend, intentEpoch>>

\* ------------------------------------------------- direct render (hook)

\* the debounce callback: generateBase64Preview(rleData) up to its fetch
renderTimer(t) ==
    LET rle == IF InvalidRle(t.captured.rle) THEN PlaceholderRle ELSE t.captured.rle
    IN  /\ IsNextTimer(t) /\ t.kind = "render"
        /\ timers' = Tail(timers)
        /\ inflight' = inflight \cup
                {Fetch(FreeId({f.id : f \in inflight}), "render", [rle |-> rle])}
        /\ UNCHANGED <<restVars, parentVars, previewMask, previewBase64Image, isGenerating,
                       previewTimeoutId, maskSwitchTimeoutId, canvasVars, userVars,
                       observedVars>>

\* the image the render endpoint returns for an rle
RenderedImage(rle) == [of |-> rle]

\* the image of the debug endpoint: the picture without any mask
DebugImage == [debug |-> TRUE]

\* what the render endpoint may answer: an image of the rle; no image (an ok body
\* without one, or a failure whose debug fallback gives none); or a failure whose
\* debug fallback gives its image
RenderAnswers == {"image", "noImage", "debugImage"}

\* the render fetch r resolves: setPreviewBase64Image when a body carries an image
renderResponds(r, answer) ==
    /\ r \in inflight
    /\ r.kind = "render"
    /\ inflight' = inflight \ {r}
    /\ previewBase64Image' =
            CASE answer = "image" -> RenderedImage(r.captured.rle)
              [] answer = "debugImage" -> DebugImage
              [] OTHER -> previewBase64Image
    /\ afterSwitch' = (afterSwitch /\ answer = "image")
    /\ UNCHANGED <<restVars, parentVars, previewMask, isGenerating, previewTimeoutId,
                   maskSwitchTimeoutId, timers, canvasVars, userOps, spotsUsed,
                   observedVars>>

\* ------------------------------------------------------------------- Next

Next ==
    \/ \E k \in 1..Len(ClickSpots) : canvasClick(k)
    \/ \E k \in 1..Len(ClickSpots) : canvasRightMouseDown(k)
    \/ \E t \in {timers[k] : k \in 1..Len(timers)} : rightClickTimer(t)
    \/ handleKeyDown
    \/ handleReset
    \/ \E index \in 0..(Len(masks) - 1) : handleMaskChange(index)
    \/ \E t \in {timers[k] : k \in 1..Len(timers)} : maskSwitchTimer(t)
    \/ handleAddMask
    \/ \E t \in {timers[k] : k \in 1..Len(timers)} : activateAddedTimer(t)
    \/ handleDeleteMask
    \/ \E t \in {timers[k] : k \in 1..Len(timers)} : previewAfterDeleteTimer(t)
    \/ handleClearMask
    \/ \E t \in {timers[k] : k \in 1..Len(timers)} : loadPreviewTimer(t)
    \/ \E t \in {timers[k] : k \in 1..Len(timers)} : requestPreviewTimer(t)
    \/ \E r \in inflight : \E answer \in GenerationAnswers : generateResponds(r, answer)
    \/ \E t \in {timers[k] : k \in 1..Len(timers)} : renderTimer(t)
    \/ \E r \in inflight : \E answer \in RenderAnswers : renderResponds(r, answer)
    \/ Advance

Spec == Init /\ [][Next]_vars

\* ------------------------------------------------- the canvas operated alone

\* a session on a region without persisted masks in which the operator works on the
\* canvas only and the generation requests it sends stay unanswered
CanvasInit == Mounted({0}, MaxCanvasOps)

CanvasNext ==
    \/ \E k \in 1..Len(ClickSpots) : canvasClick(k)
    \/ \E k \in 1..Len(ClickSpots) : canvasRightMouseDown(k)
    \/ \E t \in {timers[k] : k \in 1..Len(timers)} : rightClickTimer(t)
    \/ handleKeyDown
    \/ handleReset
    \/ \E t \in {timers[k] : k \in 1..Len(timers)} : requestPreviewTimer(t)
    \/ Advance

CanvasSpec == CanvasInit /\ [][CanvasNext]_vars

\* ------------------------------------------------------------------- save

\* the clean rles of the candidates that have a valid one, the last candidate's first
ReversedMasksToSave(ms) ==
    LET kept == SelectSeq(ms, LAMBDA mask : mask.rle # Null /\ ~InvalidRle(mask.rle))
    IN  [k \in 1..Len(kept) |-> CleanRle(kept[Len(kept) + 1 - k].rle)]

\* masks.filter(mask => mask.rle !== null).map(...).filter(rle => rle !== null):
\* the clean rle of every candidate that has a valid one (image_path,
\* is_root_concept and mask_path are the same for all and are not held)
MasksToSave(ms) ==
    LET kept == SelectSeq(ms, LAMBDA mask : mask.rle # Null /\ ~InvalidRle(mask.rle))
    IN  [k \in 1..Len(kept) |-> CleanRle(kept[k].rle)]

\* reading mask.rle of an undefined entry throws a TypeError
SaveThrows(ms) == \E k \in 1..Len(ms) : ms[k] = Null

\* the button is enabled: !isLoading && masks.some(mask => mask.rle !== null)
SaveEnabled == ~isLoading /\ \E k \in 0..(Len(masks) - 1) : RleAt(masks, k) # Null

\* handleSaveAllMasks up to its fetch: a click on "Save All Masks"
handleSaveAllMasks ==
    /\ UserMay
    /\ SaveEnabled
    /\ IF SaveThrows(masks)
       THEN /\ error' = [message |-> "TypeError"]
            /\ isLoading' = FALSE
            /\ inflight' = inflight
       ELSE /\ error' = Null
            /\ isLoading' = TRUE
            /\ inflight' = inflight \cup
                    {Fetch(FreeId({f.id : f \in inflight}), "save",
                           [rles |-> MasksToSave(masks)])}
    /\ userOps' = userOps + 1
    /\ spotsUsed' = spotsUsed
    /\ afterSwitch' = FALSE
    /\ UNCHANGED <<fixedVars, surfaceVars, imageVars, sessionOpen, updatedWith, masks, activeMaskIndex,
                   hookVars, isGenerating, maskSwitchTimeoutId, canvasVars, observedVars>>

\* what the persistence endpoint may answer: ok with a body; ok with a body that is
\* no JSON; a rejection whose JSON body has a detail; one whose JSON body has none;
\* one whose body is no JSON; or the fetch rejects
SaveAnswers ==
    {[fetched |-> TRUE, ok |-> TRUE, status |-> 200, parses |-> TRUE, detail |-> Null],
     [fetched |-> TRUE, ok |-> TRUE, status |-> 200, parses |-> FALSE, detail |-> Null],
     [fetched |-> TRUE, ok |-> FALSE, status |-> 422, parses |-> TRUE,
      detail |-> [text |-> "rles: field required"]],
     [fetched |-> TRUE, ok |-> FALSE, status |-> 500, parses |-> TRUE, detail |-> Null],
     [fetched |-> TRUE, ok |-> FALSE, status |-> 502, parses |-> FALSE, detail |-> Null],
     [fetched |-> FALSE, ok |-> FALSE, status |-> 0, parses |-> FALSE, detail |-> Null]}

\* response.statusText whatever the body holds
StatusTextOnly(answer) == <<"statusText", answer.status>>

\* errorDetail: errorData.detail || JSON.stringify(errorData), or response.statusText
\* when the body is no JSON
ErrorDetail(answer) ==
    IF answer.parses
    THEN IF answer.detail # Null THEN <<"detail", answer.detail.text>>
         ELSE <<"body", answer.status>>
    ELSE <<"statusText", answer.status>>

\* err.message in the catch of handleSaveAllMasks; Null when nothing is thrown
SaveError(answer) ==
    IF ~answer.fetched THEN [message |-> "Failed to fetch"]
    ELSE IF ~answer.ok
    THEN [message |-> "Failed to save annotation", status |-> answer.status,
          detail |-> ErrorDetail(answer)]
    ELSE IF ~answer.parses THEN [message |-> "SyntaxError"]
    ELSE Null

\* the save fetch r resolves with answer and handleSaveAllMasks resumes
saveResponds(r, answer) ==
    /\ r \in inflight
    /\ r.kind = "save"
    /\ inflight' = inflight \ {r}
    /\ IF SaveError(answer) = Null
       THEN /\ updatedWith' = [rles |-> r.captured.rles]
            /\ sessionOpen' = FALSE
            /\ UNCHANGED <<error, isLoading>>
       ELSE /\ error' = SaveError(answer)
            /\ isLoading' = FALSE
            /\ UNCHANGED <<updatedWith, sessionOpen>>
    /\ afterSwitch' = FALSE
    /\ UNCHANGED <<fixedVars, surfaceVars, imageVars, masks, activeMaskIndex, hookVars, isGenerating,
                   maskSwitchTimeoutId, canvasVars, userOps, spotsUsed, observedVars>>

\* a session in which the operator works on the candidates and saves; once the
\* parent is told to close it the operator acts no more, and the callbacks still
\* pending run on
SaveInit == Mounted(0..MaxPersisted, MaxSaveOps)

SaveNext ==
    \/ \E index \in 0..(Len(masks) - 1) : handleMaskChange(index)
    \/ \E t \in {timers[k] : k \in 1..Len(timers)} : maskSwitchTimer(t)
    \/ handleAddMask
    \/ \E t \in {timers[k] : k \in 1..Len(timers)} : activateAddedTimer(t)
    \/ handleDeleteMask
    \/ \E t \in {timers[k] : k \in 1..Len(timers)} : previewAfterDeleteTimer(t)
    \/ handleClearMask
    \/ \E t \in {timers[k] : k \in 1..Len(timers)} : loadPreviewTimer(t)
    \/ \E t \in {timers[k] : k \in 1..Len(timers)} : renderTimer(t)
    \/ \E r \in inflight : \E answer \in RenderAnswers : renderResponds(r, answer)
    \/ handleSaveAllMasks
    \/ \E r \in inflight : \E answer \in SaveAnswers : saveResponds(r, answer)
    \/ Advance

SaveSpec == SaveInit /\ [][SaveNext]_vars

\* ------------------------------------------------- the image and its scale

\* the images that may load (img.width, img.height) with the container each loads in
\* (container.clientWidth, container.clientHeight); the last one has no dimensions
ImageLoads ==
    {<<[width |-> 800, height |-> 600], [width |-> 400, height |-> 300]>>,
     <<[width |-> 30, height |-> 30], [width |-> 20, height |-> 20]>>,
     <<[width |-> 30, height |-> 60], [width |-> 20, height |-> 20]>>,
     <<[width |-> 30, height |-> 30], [width |-> 400, height |-> 300]>>,
     <<[width |-> 0, height |-> 0], [width |-> 400, height |-> 300]>>}

\* display offsets the operator clicks at while images of several sizes load
ScaleSpots == {<<100, 100>>, <<50, 7>>, <<1, 1>>}

\* img.onload: an image without dimensions is reported and changes nothing
imgOnload(img, container) ==
    /\ IF img.width = 0 \/ img.height = 0
       THEN UNCHANGED imageVars
       ELSE /\ originalImageSize' = img
            /\ scale' = ComputeScale(img, container)
    /\ UNCHANGED <<fixedVars, surfaceVars, saveVars, parentVars, hookVars, isGenerating,
                   maskSwitchTimeoutId, canvasVars, inflight, userVars, observedVars>>

\* a primary-button click at a spot of ScaleSpots
canvasClickOnSpot(spot) == canvasClickAt(spot) /\ spotsUsed' = spotsUsed

\* a session that starts before the image has loaded: images load and the operator
\* clicks on the canvas
ScaleInit == Constructed({0}, MaxScaleOps) /\ ImageLoading

ScaleNext ==
    \/ \E load \in ImageLoads : imgOnload(load[1], load[2])
    \/ \E spot \in ScaleSpots : canvasClickOnSpot(spot)

ScaleSpec == ScaleInit /\ [][ScaleNext]_vars

\* ------------------------------------------------------------ the hit test

\* display offsets one or two pixels apart: at the mounted scale of 1/2 the tolerance
\* is 4 image pixels, so a click at the middle one is within tolerance of points
\* placed at the outer two, which are not within tolerance of each other
HitSpots == {<<10, 10>>, <<11, 10>>, <<12, 10>>}

\* a secondary-button press at a spot of HitSpots
canvasRightMouseDownOnSpot(spot) == canvasRightMouseDownAt(spot) /\ spotsUsed' = spotsUsed

\* a session in which the operator places points close together and clicks among them
HitInit == Mounted({0}, MaxHitOps)

HitNext ==
    \/ \E spot \in HitSpots : canvasClickOnSpot(spot)
    \/ \E spot \in HitSpots : canvasRightMouseDownOnSpot(spot)
    \/ \E t \in {timers[k] : k \in 1..Len(timers)} : rightClickTimer(t)
    \/ \E t \in {timers[k] : k \in 1..Len(timers)} : requestPreviewTimer(t)
    \/ Advance

HitSpec == HitInit /\ [][HitNext]_vars

\* ------------------------------------------------------- the preview surface

\* previewMaskUrl: the URL render of previewMask.rleData, null without a preview or
\* while generating
PreviewMaskUrl ==
    IF previewMask = Null \/ isGenerating THEN Null ELSE [url |-> previewMask.rleData]

\* MaskPreview.renderPreviewContent: what the preview surface shows
Displayed ==
    IF isLoading THEN [shows |-> "loading"]
    ELSE IF RleAt(masks, activeMaskIndex) # Null /\ previewMask = Null
    THEN [shows |-> "existingMask", rle |-> Stringify(RleAt(masks, activeMaskIndex))]
    ELSE IF previewBase64Image # Null
    THEN IF previewBase64Image = DebugImage
         THEN [shows |-> "debugImage"]
         ELSE [shows |-> "base64Image", rle |-> Stringify(previewBase64Image.of)]
    ELSE IF PreviewMaskUrl # Null
    THEN [shows |-> "urlImage", rle |-> PreviewMaskUrl.url]
    ELSE [shows |-> "noPreview"]

\* the URL of the debug endpoint for the image
DebugEndpointUrl == [debugUrl |-> TRUE]

\* debugPreviewUrl: if (!imageData || previewMaskUrl) return null
DebugPreviewUrl == IF PreviewMaskUrl # Null THEN Null ELSE DebugEndpointUrl

\* onError of the URL-based preview image: the image is hidden, and an image whose
\* src is the debugPreviewUrl of the render the handler was created in is put
\* after it, with the notice "Using debug preview mode"
previewImageError ==
    /\ Displayed.shows = "urlImage"
    /\ substituted' = [src |-> DebugPreviewUrl, notice |-> TRUE]
    /\ UNCHANGED <<fixedVars, imageVars, saveVars, parentVars, hookVars, isGenerating,
                   maskSwitchTimeoutId, canvasVars, inflight, userVars, observedVars>>

\* a session followed on the preview surface: the operator clicks on the canvas,
\* previews are generated and rendered, and the URL-based image may fail to load
SurfaceInit == Mounted(0..MaxPersisted, MaxSurfaceOps)

SurfaceNext ==
    \/ \E k \in 1..Len(ClickSpots) : canvasClick(k)
    \/ \E t \in {timers[k] : k \in 1..Len(timers)} : loadPreviewTimer(t)
    \/ \E t \in {timers[k] : k \in 1..Len(timers)} : requestPreviewTimer(t)
    \/ \E r \in inflight : \E answer \in GenerationAnswers : generateResponds(r, answer)
    \/ \E t \in {timers[k] : k \in 1..Len(timers)} : renderTimer(t)
    \/ \E r \in inflight : \E answer \in RenderAnswers : renderResponds(r, answer)
    \/ previewImageError
    \/ Advance

SurfaceSpec == SurfaceInit /\ [][SurfaceNext]_vars

\* ------------------------------------------------------------ vocabulary

\* the pending timers
PendingTimers == {timers[k] : k \in 1..Len(timers)}

\* the geometry as it is now, as a request would carry it
CurrentData == PreviewData(positivePoints, negativePoints, polygonPoints)

\* a step in which the generation response of fetch r is applied to the collection
\* and the preview
Applies(r, answer) ==
    /\ generateResponds(r, answer)
    /\ ResponseApplies(AwaitedRle(r.kind, answer, r.captured.data), r.captured.token)

\* a step in which the deferred call of timer t hands a generation request to the backend
Sends(t) == requestPreviewTimer(t) /\ CallFetches(t.captured)

\* no timer pending and no request in flight
Quiescent == timers = <<>> /\ inflight = {}

\* the surface shows a mask that is neither a persisted one nor the placeholder:
\* one that was generated for a geometry
ShowsGenerated ==
    /\ "rle" \in DOMAIN Displayed
    /\ Displayed.rle \notin {Stringify(PersistedRle(i)) : i \in 0..(MaxPersisted - 1)}
    /\ Displayed.rle # Stringify(PlaceholderRle)

\* ---------------------------------------------------------------- claims

\* C1: a generation response is applied only if the token of its request equals the
\* highest token issued so far; the response of a superseded request is dropped.
C1_AppliedOnlyIfHighestToken ==
    [][\A r \in inflight : \A answer \in GenerationAnswers :
            Applies(r, answer) => r.captured.token = highestToken]_vars

\* C2: generation responses are applied in non-decreasing token order: a response
\* with a token lower than one already applied leaves the collection and the preview
\* as they are.
C2_AppliedInTokenOrder ==
    [][\A r \in inflight : \A answer \in GenerationAnswers :
            Applies(r, answer) => r.captured.token >= appliedToken]_vars

\* C3: in a quiescent state of a session without mask switch or reset, a generated
\* mask on the preview surface is the one generated for the geometry as it is now.
C3_QuiescentPreviewIsCurrent ==
    (Quiescent /\ intentEpoch = 0 /\ ShowsGenerated)
        => Displayed.rle = Stringify(CleanRle(GeneratedRle(CurrentData)))

\* C4: the collection is never empty and the active index is one of its indices.
C4_ActiveIndexInRange ==
    Len(masks) >= 1 /\ activeMaskIndex >= 0 /\ activeMaskIndex < Len(masks)

\* C5: a generation request is sent only when the debounce window has passed since
\* the previous one was sent, so a burst of edits that follow each other within the
\* window sends at most one.
C5_OneRequestPerBurst ==
    [][\A t \in PendingTimers : Sends(t) => sinceSend >= BackupDebounceMs]_vars

\* C6: every generation request sent carries a token strictly greater than the token
\* of every request sent before it.
C6_TokensStrictlyIncrease ==
    [][\A t \in PendingTimers : Sends(t) => t.captured.token > highestSent]_vars

\* C7: a generation response whose request was stamped before a mask switch or a
\* geometry reset is not applied after that switch or reset.
C7_NotAppliedAfterSwitchOrReset ==
    [][\A r \in inflight : \A answer \in GenerationAnswers :
            Applies(r, answer) => r.captured.epoch = intentEpoch]_vars

\* C8: deleting the only candidate leaves exactly one candidate, with rle null and
\* isExisting false, and the active index 0.
C8_DeleteOnlyCandidate ==
    [][(handleDeleteMask /\ Len(masks) = 1) =>
            /\ Len(masks') = 1
            /\ masks'[1].rle = Null
            /\ masks'[1].isExisting = FALSE
            /\ activeMaskIndex' = 0]_vars

\* a collection and active index that only the deletion of the only candidate leaves
C8_Witness == masks = ReplacementMasks /\ activeMaskIndex = 0

\* C9: deleting the candidate at the active index i of a collection of n >= 2
\* candidates removes exactly that candidate, keeps the others in their order, and
\* sets the active index to min(i, n - 2).
C9_DeleteActiveCandidate ==
    [][(/\ handleDeleteMask
        /\ Len(masks) >= 2
        /\ activeMaskIndex >= 0 /\ activeMaskIndex < Len(masks)) =>
            /\ Len(masks') = Len(masks) - 1
            /\ \A k \in 0..(Len(masks) - 2) :
                    At(masks', k) = At(masks, IF k < activeMaskIndex THEN k ELSE k + 1)
            /\ activeMaskIndex' = Min(activeMaskIndex, Len(masks) - 2)]_vars

\* the first of the persisted candidates has been deleted
C9_Witness ==
    /\ masks = SubSeq(ExistingMasks(MaxPersisted), 2, MaxPersisted)
    /\ activeMaskIndex = 0
    /\ userOps = 1

\* C10: adding a mask to a collection of n candidates appends one candidate with rle
\* null at index n and leaves the first n unchanged; when the deferred activation of
\* that add runs, the active index becomes n and the preview state is cleared.
C10_AddAppendsThenActivates ==
    [][/\ handleAddMask =>
            /\ Len(masks') = Len(masks) + 1
            /\ SubSeq(masks', 1, Len(masks)) = masks
            /\ At(masks', Len(masks)).rle = Null
            /\ \E t \in {timers'[k] : k \in 1..Len(timers')} :
                    t.kind = "activateAdded" /\ t.captured.index = Len(masks)
       /\ \A t \in PendingTimers : activateAddedTimer(t) =>
            /\ activeMaskIndex' = t.captured.index
            /\ previewMask' = Null
            /\ previewBase64Image' = Null]_vars

\* the added candidate is the active one and the surface shows no preview
C10_Witness ==
    /\ Len(masks) >= 2
    /\ activeMaskIndex = Len(masks) - 1
    /\ masks[Len(masks)] = EmptyMask(<<"new", Len(masks) - 1>>)
    /\ \A k \in 1..Len(timers) : timers[k].kind # "activateAdded"
    /\ Displayed.shows = "noPreview"

\* C11: clearing the active mask sets the active candidate's rle to null and keeps
\* its id; the number of candidates, the active index and every other candidate are
\* unchanged, and the preview surface shows no preview.
C11_ClearActiveMask ==
    [][handleClearMask =>
            /\ Len(masks') = Len(masks)
            /\ activeMaskIndex' = activeMaskIndex
            /\ At(masks', activeMaskIndex) # Null
            /\ At(masks', activeMaskIndex).rle = Null
            /\ At(masks', activeMaskIndex).id = At(masks, activeMaskIndex).id
            /\ \A k \in 0..(Len(masks) - 1) :
                    k # activeMaskIndex => At(masks', k) = At(masks, k)
            /\ Displayed'.shows = "noPreview"]_vars

\* what the surface shows when it shows the preview of a stored rle, or no preview
\* for null
ShowsStored(rle) ==
    IF rle = Null
    THEN Displayed.shows = "noPreview"
    ELSE "rle" \in DOMAIN Displayed /\ Displayed.rle = Stringify(CleanRle(rle))

\* the deferred generation calls among the pending timers
PendingCalls(tms) ==
    {k \in 1..Len(tms) : tms[k].kind \in {"requestPreview", "backupPreview"}}

\* C12: after a sequence of mask switches, once every timer has fired and every
\* request is answered, the surface shows the preview of the stored rle of the
\* active candidate, or no preview when that rle is null; and a switch neither sends
\* nor schedules a mask-generation request.
C12_SwitchShowsStoredRle ==
    /\ []((Quiescent /\ afterSwitch) => ShowsStored(RleAt(masks, activeMaskIndex)))
    /\ [][\A index \in 0..(Len(masks) - 1) : handleMaskChange(index) =>
            /\ inflight' = inflight
            /\ Cardinality(PendingCalls(timers')) = Cardinality(PendingCalls(timers))]_vars

\* the point of the geometry as it is now that a click at spot hits, or Null
HitBy(spot) ==
    FindClickedPoint(isPointPromptMode, positivePoints, negativePoints, polygonPoints,
                     ClickPoint(spot).x, ClickPoint(spot).y)

\* a step in which handleCanvasClick runs for a click at spot
ClickRuns(spot) ==
    \/ \E k \in 1..Len(ClickSpots) : ClickSpots[k] = spot /\ canvasClick(k)
    \/ \E t \in PendingTimers : rightClickTimer(t) /\ t.captured.spot = spot

\* the latest run of handleCanvasClick hit the point that a click at spot hits now,
\* and the operator has not acted otherwise since
HitAgain(spot) ==
    /\ HitBy(spot) # Null
    /\ lastClickedPoint = HitBy(spot)
    /\ beforeLastClick # Null

\* the step removes point ref from its array and nothing else
RemovesOnly(ref) ==
    /\ positivePoints' = WithoutPoint(positivePoints, "positive", ref)
    /\ negativePoints' = WithoutPoint(negativePoints, "negative", ref)
    /\ polygonPoints' = WithoutPoint(polygonPoints, "polygon", ref)
    /\ Len(positivePoints') + Len(negativePoints') + Len(polygonPoints')
            = Len(positivePoints) + Len(negativePoints) + Len(polygonPoints) - 1

\* C13: the second of two consecutive clicks that hit the same existing point less
\* than 300 ms apart removes exactly that point, the other points keeping their
\* order, and leaves the selection empty.
C13_DoubleClickRemovesPoint ==
    [][\A spot \in {ClickSpots[k] : k \in 1..Len(ClickSpots)} :
            (HitAgain(spot) /\ sinceLastClick < DoubleClickMs /\ ClickRuns(spot)) =>
                RemovesOnly(HitBy(spot)) /\ selectedPoint' = Null]_vars

\* the step leaves every point where it is and schedules no generation request
KeepsPointsAndRequests ==
    /\ UNCHANGED pointVars
    /\ previewRequestId' = previewRequestId
    /\ Cardinality(PendingCalls(timers')) = Cardinality(PendingCalls(timers))

\* C14 as stated: the second of two consecutive clicks that hit the same existing
\* point 300 ms or more apart leaves every point present, schedules no preview
\* request, and leaves the selection as it was before the first of the two clicks.
C14_SlowSecondClickRestoresSelection ==
    [][\A spot \in {ClickSpots[k] : k \in 1..Len(ClickSpots)} :
            (HitAgain(spot) /\ sinceLastClick >= DoubleClickMs /\ ClickRuns(spot)) =>
                KeepsPointsAndRequests /\ selectedPoint' = beforeLastClick.sel]_vars

\* C14, amended: the second of two consecutive clicks that hit the same existing
\* point 300 ms or more apart leaves every point present and schedules no preview
\* request; it clears the selection when the hit point is the selected one and
\* selects the hit point otherwise.
C14_SlowSecondClickToggles ==
    [][\A spot \in {ClickSpots[k] : k \in 1..Len(ClickSpots)} :
            (HitAgain(spot) /\ sinceLastClick >= DoubleClickMs /\ ClickRuns(spot)) =>
                /\ KeepsPointsAndRequests
                /\ selectedPoint' = IF selectedPoint = HitBy(spot) THEN Null
                                    ELSE HitBy(spot)]_vars

\* a point that was hit and selected, and hit again later, is present and no longer
\* selected
C14_Witness ==
    /\ lastClickedPoint # Null
    /\ beforeLastClick # Null
    /\ beforeLastClick.sel = lastClickedPoint
    /\ selectedPoint = Null
    /\ sinceLastClick = 0
    /\ netEdits = 1
    /\ Len(positivePoints) + Len(negativePoints) + Len(polygonPoints) = 1

\* the points and vertices the canvas holds
\* C15: after every sequence of add and delete edits the number of points and
\* vertices held is the number of additions minus the number of deletions (counted
\* anew after a reset), and it is never negative.
C15_CountIsAddsMinusDeletes == PointCount = netEdits /\ netEdits >= 0

\* the rle is one a consumer may be handed: absent, or with counts and size
Usable(rle) == rle = Null \/ ~InvalidRle(rle)

\* no candidate, no preview render waiting or in flight and no deferred preview update
\* holds a payload that lacks counts or size
NoInvalidHeld ==
    /\ \A k \in 0..(Len(masks) - 1) : Usable(RleAt(masks, k))
    /\ \A t \in PendingTimers :
            t.kind \in {"render", "maskSwitch", "loadPreview", "previewAfterDelete"}
                => Usable(t.captured.rle)
    /\ \A r \in inflight : r.kind = "render" => Usable(r.captured.rle)

\* C16: when a generation answer carries an rle that lacks counts or size, the step
\* that receives it either leaves an error set or stores the placeholder (counts "0",
\* size [height, width] of the image) in a candidate; and no payload lacking counts
\* or size is ever stored in a candidate, previewed or sent on to the renderer.
C16_InvalidPayloadErrorOrPlaceholder ==
    /\ []NoInvalidHeld
    /\ [][\A r \in inflight :
            generateResponds(r, "invalid") =>
                \/ error' # Null
                \/ \E k \in 0..(Len(masks') - 1) : RleAt(masks', k) = PlaceholderRle]_vars

\* the candidate the applied response of fetch r is stored in
StoredBy(r) == RleAt(masks', r.captured.parent.active)

\* C17: canonicalising is idempotent and keeps exactly counts and size with the
\* payload's values: when a generated mask (counts, size and a further field) is
\* applied, the candidate's rle, which was canonicalised on receipt, has the fields
\* counts and size only, with the payload's values, canonicalising it again gives
\* it back, and the preview, which canonicalises it once more, carries the same rle.
C17_CanonicaliseIdempotent ==
    [][\A r \in inflight :
        Applies(r, "valid") =>
            LET x == GeneratedRle(r.captured.data)
            IN  /\ CleanRle(CleanRle(x)) = CleanRle(x)
                /\ DOMAIN CleanRle(x) = {"counts", "size"}
                /\ CleanRle(x).counts = x.counts /\ CleanRle(x).size = x.size
                /\ StoredBy(r) = CleanRle(x)
                /\ CleanRle(StoredBy(r)) = StoredBy(r)
                /\ previewMask' = [rleData |-> Stringify(CleanRle(x))]]_vars

\* a generated mask is stored in the active candidate and previewed
C17_Witness ==
    /\ RleAt(masks, activeMaskIndex) # Null
    /\ DOMAIN RleAt(masks, activeMaskIndex) = {"counts", "size"}
    /\ \E data \in {CurrentData} :
            RleAt(masks, activeMaskIndex).counts = GeneratedRle(data).counts
    /\ previewMask = [rleData |-> Stringify(RleAt(masks, activeMaskIndex))]

\* the first three operations of the session each added a vertex to the polygon that
\* was empty at mount, each within BackupDebounceMs of the one before, and every
\* deferred preview call they left has run
ThreeQuickVerticesSettled ==
    /\ mode = "polygon"
    /\ userOps = 3
    /\ quickAdds = 3
    /\ PendingCalls(timers) = {}

\* C18: when three polygon vertices are added to an empty polygon in quick
\* succession, exactly one preview-generation request is issued, and it carries
\* the three vertices in insertion order.
C18_ThreeVerticesOneRequest ==
    ThreeQuickVerticesSettled =>
        /\ Len(polygonPoints) = 3
        /\ Cardinality(inflight) = 1
        /\ \A r \in inflight :
                r.kind = "polygon" /\ r.captured.data.polygonPoints = polygonPoints

\* the ratio s is the least of cw/iw, ch/ih and 0.99
IsLeastOfThree(s, img, container) ==
    /\ s.n * img.width <= container.width * s.d
    /\ s.n * img.height <= container.height * s.d
    /\ s.n * 100 <= 99 * s.d
    /\ \/ s.n * img.width = container.width * s.d
       \/ s.n * img.height = container.height * s.d
       \/ s.n * 100 = 99 * s.d

\* the integer c is offset / s rounded to the nearest integer, a half upwards
IsRounded(c, offset, s) ==
    /\ c \in Int
    /\ 2 * (c * s.n - offset * s.d) > -s.n
    /\ 2 * (c * s.n - offset * s.d) <= s.n

\* the point a click that hit nothing has just appended
AddedPoint == IF isPointPromptMode THEN positivePoints'[Len(positivePoints')]
              ELSE polygonPoints'[Len(polygonPoints')]

\* C19: an image that loads sets the display scale to
\* min(containerWidth/imageWidth, containerHeight/imageHeight, 0.99), and a click at
\* display offset (dx, dy) that hits no point adds the image point
\* (round(dx/scale), round(dy/scale)), with integer coordinates; an 800x600 image in
\* a 400x300 container gives scale 0.5, and then display (100,100) adds (200,200).
C19_ScaleAndImagePoint ==
    [][/\ \A load \in ImageLoads :
            (imgOnload(load[1], load[2]) /\ load[1].width > 0 /\ load[1].height > 0) =>
                /\ IsLeastOfThree(scale', load[1], load[2])
                /\ (load[1] = [width |-> 800, height |-> 600]
                        /\ load[2] = [width |-> 400, height |-> 300])
                    => 2 * scale'.n = scale'.d
       /\ \A spot \in ScaleSpots :
            (canvasClickAt(spot) /\ netEdits' = netEdits + 1) =>
                /\ IsRounded(AddedPoint.x, spot[1], scale)
                /\ IsRounded(AddedPoint.y, spot[2], scale)
                /\ (2 * scale.n = scale.d /\ spot = <<100, 100>>)
                    => AddedPoint = [x |-> 200, y |-> 200]]_vars

\* the 800x600 image has loaded in the 400x300 container and a click at display
\* (100,100) has added the image point (200,200)
C19_Witness ==
    /\ originalImageSize = [width |-> 800, height |-> 600]
    /\ 2 * scale.n = scale.d
    /\ \/ positivePoints # <<>> /\ positivePoints[Len(positivePoints)] = [x |-> 200, y |-> 200]
       \/ polygonPoints # <<>> /\ polygonPoints[Len(polygonPoints)] = [x |-> 200, y |-> 200]

\* the persistence endpoint rejects the save: it answers with a status that is not ok
Rejects(answer) == answer.fetched /\ ~answer.ok

\* C20: when the save is rejected, an error message is set that carries the server's
\* detail text when the answer has one, the collection and the active index stay as
\* they are, onUpdateAnnotation is not called, the session stays open with loading
\* cleared, and no save is sent or scheduled again.
C20_RejectedSaveSurfacesError ==
    [][\A r \in inflight : \A answer \in SaveAnswers :
        (saveResponds(r, answer) /\ Rejects(answer)) =>
            /\ error' # Null
            /\ error'.message = "Failed to save annotation"
            /\ answer.detail # Null => error'.detail = <<"detail", answer.detail.text>>
            /\ masks' = masks
            /\ activeMaskIndex' = activeMaskIndex
            /\ updatedWith' = updatedWith
            /\ updatedWith = Null
            /\ sessionOpen'
            /\ ~isLoading'
            /\ timers' = timers
            /\ \A f \in inflight' : f.kind # "save"]_vars

\* a save was rejected with a detail text: the error carries it, loading is cleared,
\* the session is open and the candidates still hold a mask to save
C20_Witness ==
    /\ error # Null
    /\ error.message = "Failed to save annotation"
    /\ error.detail[1] = "detail"
    /\ ~isLoading
    /\ sessionOpen
    /\ updatedWith = Null
    /\ SaveEnabled

\* the collaborator fails: the fetch rejects or the status is not ok
GenerationFails(answer) == answer \in {"httpError", "networkError"}

\* C21: whenever the mask-generation collaborator fails or answers with a status
\* that is not ok, in point-prompt mode as in polygon mode, the step that receives the
\* answer leaves an error message set and neither sends nor schedules a generation
\* request.
C21_GenerationFailureSurfaced ==
    [][\A r \in inflight : \A answer \in GenerationAnswers :
        (generateResponds(r, answer) /\ GenerationFails(answer)) =>
            /\ error' # Null
            /\ timers' = timers
            /\ inflight' = inflight \ {r}]_vars

\* a geometry the collaborator can be asked about: three vertices or more in
\* polygon mode, a positive point or more in point-prompt mode
Previewable(data) == PreviewBranch(data) # "none"

\* C22: every add or delete that changes the point sets or the vertex list (and
\* leaves a geometry the collaborator can be asked about) is followed by a preview
\* request: the edit leaves a deferred preview call that carries the geometry as it
\* is after the edit, and such a call, when it runs, sends its geometry to the
\* mask-generation collaborator.
C22_EditFollowedByRequest ==
    [][/\ (pointVars' # pointVars /\ Previewable(CurrentData')) =>
            \E k \in PendingCalls(timers') :
                /\ timers'[k].captured.calls
                /\ timers'[k].captured.data = CurrentData'
       /\ \A t \in PendingTimers :
            (requestPreviewTimer(t) /\ t.captured.calls /\ Previewable(t.captured.data)) =>
                \E r \in inflight' \ inflight : r.captured.data = t.captured.data]_vars

\* the debounced actions: the direct render of the hook, the preview of a mask
\* switch, and the preview request of a geometry edit
DebouncedKinds == {"render", "maskSwitch", "requestPreview"}

\* the pending timers of one debounced action
PendingOfKind(kind) == {k \in 1..Len(timers) : timers[k].kind = kind}

\* C23: at any moment at most one timer is pending for a debounced action:
\* scheduling it again while its timer is pending cancels that timer first, so a
\* replaced timer's callback never fires.
C23_OneTimerPerDebouncedAction ==
    \A kind \in DebouncedKinds : Cardinality(PendingOfKind(kind)) <= 1

\* the rles whose direct render is under way: debounced and not yet called, or
\* called and not yet answered
DirectRenderPending ==
    {t.captured.rle : t \in {u \in PendingTimers : u.kind = "render"}}
        \cup {r.captured.rle : r \in {f \in inflight : f.kind = "render"}}

\* the surface has the image element of the URL-based render of rle: the browser is
\* fetching that URL or has fetched it
UrlRenderStarted(rle) == Displayed.shows = "urlImage" /\ Displayed.rle = Stringify(rle)

\* C24: for one preview the fallback stages are attempted strictly one after
\* another: the URL-based render of a preview is started only after its direct
\* render has been confirmed failed, so never while that direct render is under way.
C24_StagesOneAfterAnother ==
    \A rle \in DirectRenderPending : ~UrlRenderStarted(rle)

\* C25: whenever the URL-based preview image fails to load, the image source put in
\* its place is a non-null URL of the diagnostic endpoint for the image.
C25_FailedUrlImageGetsDebugUrl ==
    [][previewImageError =>
            /\ substituted'.src # Null
            /\ substituted'.src = DebugEndpointUrl]_vars

\* the direct-render call r is unanswered and nothing else is pending: no timer, no
\* other request; as long as r does not resolve, the program takes no further step
\* of its own
OnlyRenderOutstanding(r) == r.kind = "render" /\ inflight = {r} /\ timers = <<>>

\* the surface shows the rendered image of an rle other than the given one
ShowsImageOfAnother(rle) ==
    Displayed.shows = "base64Image" /\ Displayed.rle # Stringify(rle)

\* C26: a direct-render call that never resolves does not leave the preview pending
\* or showing the previous image for ever: where such a call is all that is
\* outstanding, so that nothing more happens unless it resolves, the surface does
\* not show the image of an earlier preview.
C26_UnresolvedRenderDoesNotHang ==
    \A r \in inflight : OnlyRenderOutstanding(r) => ~ShowsImageOfAnother(r.captured.rle)

\* an rle with exactly the fields counts and size, neither of them empty
Canonical(rle) ==
    /\ DOMAIN rle = {"counts", "size"}
    /\ rle.counts # <<>>
    /\ rle.size # <<>>

\* C27: in every reachable state, every non-null rle held by a candidate has exactly
\* the two fields counts and size, both non-empty, whichever way the candidate was
\* created or updated.
C27_CandidateRleCanonical ==
    \A k \in 0..(Len(masks) - 1) :
        (At(masks, k) # Null /\ RleAt(masks, k) # Null) => Canonical(RleAt(masks, k))

\* the point array the selection's type names
PointsOfType(type, pos, neg, poly) ==
    CASE type = "positive" -> pos
      [] type = "negative" -> neg
      [] OTHER -> poly

\* after is before without its element at the 0-based index, the others in order;
\* an index that names no element of before takes nothing away
IsWithoutElement(after, before, index) ==
    IF index >= 0 /\ index < Len(before)
    THEN /\ Len(after) = Len(before) - 1
         /\ \A j \in 1..Len(after) :
                after[j] = IF j <= index THEN before[j] ELSE before[j + 1]
    ELSE after = before

\* C29: deleting the selected point by keyboard removes exactly the selected point
\* (the array the selection's type names loses the element at the selection's index
\* and keeps the others in order, the other arrays keep theirs; a selection left
\* naming no point takes none away), clears the selection and leaves lastClickTime
\* and lastClickedPoint as they were; with no selection the key changes nothing.
C29_KeyboardDeleteFrame ==
    [][/\ handleKeyDown =>
            /\ selectedPoint # Null
            /\ IsWithoutElement(
                    PointsOfType(selectedPoint.type, positivePoints', negativePoints',
                                 polygonPoints'),
                    PointsOfType(selectedPoint.type, positivePoints, negativePoints,
                                 polygonPoints),
                    selectedPoint.index)
            /\ \A type \in {"positive", "negative", "polygon"} \ {selectedPoint.type} :
                    PointsOfType(type, positivePoints', negativePoints', polygonPoints')
                        = PointsOfType(type, positivePoints, negativePoints, polygonPoints)
            /\ selectedPoint' = Null
            /\ sinceLastClick' = sinceLastClick
            /\ lastClickedPoint' = lastClickedPoint
       /\ selectedPoint = Null => ~handleKeyDown]_vars

\* the last operation was a keyboard delete that left one point of two, with the
\* double-click tracking still naming the point clicked before it
C29_Witness ==
    /\ beforeLastClick = Null
    /\ selectedPoint = Null
    /\ PointCount = 1
    /\ userOps >= 3
    /\ lastClickedPoint # Null

\* C28: when a generation response carries an RLE without counts or without size,
\* the candidates (the active one's rle, every other candidate), activeIndex and the
\* displayed preview are all left as they were.
C28_InvalidResponseChangesNothing ==
    [][\A r \in inflight :
        generateResponds(r, "invalid") =>
            /\ masks' = masks
            /\ activeMaskIndex' = activeMaskIndex
            /\ Displayed' = Displayed]_vars

\* the points of the geometry in the order positive, negative, polygon, each array in
\* insertion order, and the reference the hit test gives for each
PointsInOrder == positivePoints \o negativePoints \o polygonPoints
RefsInOrder ==
    [k \in 1..Len(positivePoints) |-> PointRef("positive", k - 1)]
        \o [k \in 1..Len(negativePoints) |-> PointRef("negative", k - 1)]
        \o [k \in 1..Len(polygonPoints) |-> PointRef("polygon", k - 1)]

\* the distance from point to (x, y) is less than CLICK_TOLERANCE / scale
NearClick(point, x, y) ==
    LET dx == point.x - x
        dy == point.y - y
    IN  (dx * dx + dy * dy) * (scale.n * scale.n)
            < (CLICK_TOLERANCE * CLICK_TOLERANCE) * (scale.d * scale.d)

\* the places in PointsInOrder of the points near the click at display offset spot
NearPlaces(spot) ==
    {j \in 1..Len(PointsInOrder) :
        NearClick(PointsInOrder[j], ClickPoint(spot).x, ClickPoint(spot).y)}

\* findClickedPoint of the current render for the click at display offset spot
HitAt(spot) ==
    FindClickedPoint(isPointPromptMode, positivePoints, negativePoints, polygonPoints,
                     ClickPoint(spot).x, ClickPoint(spot).y)

\* C30: the hit test returns the first point, in the order positive points, then
\* negative points, then polygon vertices (each in insertion order), whose distance
\* to the click is within the tolerance (the pixel tolerance divided by the scale),
\* and no hit when no point is within the tolerance.
C30_HitTestFirstInOrder ==
    \A spot \in HitSpots :
        IF NearPlaces(spot) = {}
        THEN HitAt(spot) = Null
        ELSE \E j \in NearPlaces(spot) :
                /\ \A i \in NearPlaces(spot) : j <= i
                /\ HitAt(spot) = RefsInOrder[j]

\* a click landed within tolerance of a negative point and of a positive point placed
\* after it, and hit the positive one
C30_Witness ==
    /\ Len(positivePoints) = 1 /\ Len(negativePoints) = 1
    /\ \E spot \in HitSpots :
            /\ Cardinality(NearPlaces(spot)) = 2
            /\ HitAt(spot) = PointRef("positive", 0)
    /\ lastClickedPoint = PointRef("positive", 0)
    /\ selectedPoint = PointRef("positive", 0)

\* after is before with one element more at its end, or with one element less and the
\* others in order, or before itself
OneEditOf(after, before) ==
    \/ after = before
    \/ Len(after) = Len(before) + 1 /\ SubSeq(after, 1, Len(before)) = before
    \/ \E index \in 0..(Len(before) - 1) :
            /\ Len(after) = Len(before) - 1
            /\ \A j \in 1..Len(after) :
                    after[j] = IF j <= index THEN before[j] ELSE before[j + 1]

\* the step applies one interaction's edit to the geometry as it is: one array gains
\* or loses one point, or a reset empties them all
AppliesOneEdit ==
    \/ /\ OneEditOf(positivePoints', positivePoints)
       /\ OneEditOf(negativePoints', negativePoints)
       /\ OneEditOf(polygonPoints', polygonPoints)
    \/ positivePoints' = <<>> /\ negativePoints' = <<>> /\ polygonPoints' = <<>>

\* C31: edits are applied to the geometry strictly in the order of the operator's
\* interactions, secondary-button clicks handled after their delay included: every
\* step that changes the point sets applies one edit (a point appended or removed, or
\* a reset) to the point sets as the edits before it left them, so that no earlier
\* edit is undone or lost.
C31_EditsAppliedInOrder == [][pointVars' # pointVars => AppliesOneEdit]_vars

\* the collection holds one candidate per persisted RLE of a region with n of them, in
\* the persisted order, each existing and with that RLE; for n = 0 one empty candidate
LoadedFrom(n) ==
    IF n = 0
    THEN /\ Len(masks) = 1
         /\ masks[1] # Null /\ masks[1].rle = Null /\ ~masks[1].isExisting
    ELSE /\ Len(masks) = n
         /\ \A k \in 1..n :
                /\ masks[k] # Null
                /\ masks[k].isExisting
                /\ masks[k].rle = PersistedRle(k - 1)

\* C32: when a session for a region begins (until the operator's first interaction),
\* the collection holds one candidate per persisted RLE of the region, in the persisted
\* order, each with isExisting true and that RLE, and the active index is 0; for a
\* region without persisted RLEs it holds exactly one candidate, with rle null and
\* isExisting false.
C32_SessionBeginsWithPersisted ==
    userOps = 0 =>
        /\ activeMaskIndex = 0
        /\ \E n \in 0..MaxPersisted : LoadedFrom(n)

\* a session over the most persisted RLEs has begun and the load effect's deferred
\* preview of the first has run
C32_Witness ==
    /\ userOps = 0
    /\ LoadedFrom(MaxPersisted)
    /\ previewMask = [rleData |-> Stringify(PersistedRle(0))]

\* C33: after clearPreview the preview stays empty (previewMask null and
\* previewBase64Image null) until the next updateMaskPreview with a valid RLE: while
\* previewMask is null, which it is from a clear until that call, no image is held,
\* whatever render timer was pending or render response in flight at the clear.
C33_ClearedPreviewStaysEmpty == previewMask = Null => previewBase64Image = Null

\* the collection after the step is the collection before it but for the rle of the
\* candidate at the active index
OnlyActiveRleChanged ==
    /\ Len(masks') = Len(masks)
    /\ \A k \in 0..(Len(masks) - 1) :
            IF k = activeMaskIndex
            THEN /\ At(masks', k) # Null /\ At(masks, k) # Null
                 /\ At(masks', k).id = At(masks, k).id
                 /\ At(masks', k).isExisting = At(masks, k).isExisting
            ELSE At(masks', k) = At(masks, k)

\* C34: applying a generation response changes only the rle (and timestamp) of the
\* currently active candidate: the number of candidates, their order and every other
\* candidate are as they were immediately before the response arrived, also when
\* candidates were added, deleted or cleared or the active index changed while the
\* request was in flight.
C34_ResponseChangesOnlyActive ==
    [][\A r \in inflight : \A answer \in GenerationAnswers :
            Applies(r, answer) => OnlyActiveRleChanged]_vars

\* C35: whenever a direct-render image is held together with a non-null previewMask,
\* the image was rendered from the RLE previewMask holds: an image rendered from an
\* earlier RLE is never held for a newer previewMask.
C35_ImageIsOfPreviewedRle ==
    (previewMask # Null /\ previewBase64Image # Null /\ previewBase64Image # DebugImage)
        => Stringify(previewBase64Image.of) = previewMask.rleData

\* the points and vertices held, whatever their array
PointsHeld ==
    {PointsInOrder[j] : j \in 1..Len(PointsInOrder)}

\* C36: a double-click deletion removes a point only if both clicks of the pair hit
\* that same point: a point that a primary-button click takes away is the point the
\* click before it hit, also when a keyboard deletion or another change of the
\* geometry came between the two clicks.
C36_DoubleClickRemovesFirstHit ==
    [][\A k \in 1..Len(ClickSpots) :
            canvasClick(k) => \A point \in PointsHeld \ PointsHeld' : point = lastHitPoint]_vars

\* the point arrays of the canvas's mode
TypesOfMode == IF isPointPromptMode THEN {"positive", "negative"} ELSE {"polygon"}

\* C37: whenever selectedPoint is non-null, its type names an array of the active mode
\* and its index is a valid index into that array.
C37_SelectionNamesAPoint ==
    selectedPoint # Null =>
        /\ selectedPoint.type \in TypesOfMode
        /\ selectedPoint.index >= 0
        /\ selectedPoint.index <
                Len(PointsOfType(selectedPoint.type, positivePoints, negativePoints,
                                 polygonPoints))

\* the array a primary-button click appends to
PrimaryPoints == IF isPointPromptMode THEN positivePoints ELSE polygonPoints
PrimaryType == IF isPointPromptMode THEN "positive" ELSE "polygon"

\* the latest run of handleCanvasClick hit no point, and the newest point of the array
\* a primary-button click appends to lies where a click at spot lands: the click
\* before this one appended it there
JustAppendedAt(spot) ==
    /\ beforeLastClick # Null
    /\ lastClickedPoint = Null
    /\ PrimaryPoints # <<>>
    /\ PrimaryPoints[Len(PrimaryPoints)] = ClickPoint(spot)

C39_CandidateIdsDistinct ==
    \A i, j \in 1..Len(masks) :
        (i < j /\ masks[i] # Null /\ masks[j] # Null) => masks[i].id # masks[j].id

\* the 1-based places of the candidates that have an rle with counts and size
SavablePlaces ==
    {k \in 1..Len(masks) :
        /\ masks[k] # Null
        /\ masks[k].rle # Null
        /\ "counts" \in DOMAIN masks[k].rle /\ masks[k].rle.counts # <<>>
        /\ "size" \in DOMAIN masks[k].rle}

\* the i-th of SavablePlaces in collection order
SavablePlace(i) ==
    CHOOSE k \in SavablePlaces : Cardinality({j \in SavablePlaces : j < k}) = i - 1

\* list has one entry per candidate with a valid rle, in collection order, with that
\* candidate's counts and size
IsListOfSavable(list) ==
    /\ Len(list) = Cardinality(SavablePlaces)
    /\ \A i \in 1..Len(list) :
            /\ list[i].counts = masks[SavablePlace(i)].rle.counts
            /\ list[i].size = masks[SavablePlace(i)].rle.size

\* C40: the list the save-all operation hands to persistence has exactly one entry per
\* candidate whose rle is non-null and has counts and size, in collection order and
\* with that candidate's counts and size, candidates with a null or invalid rle
\* contributing none; and on success exactly the list that was sent is passed to
\* onUpdateAnnotation and the session is closed.
C40_SavedListIsValidCandidates ==
    [][/\ handleSaveAllMasks =>
            \E f \in inflight' \ inflight : f.kind = "save" /\ IsListOfSavable(f.captured.rles)
       /\ \A r \in inflight : \A answer \in SaveAnswers :
            (saveResponds(r, answer) /\ SaveError(answer) = Null) =>
                /\ updatedWith' = [rles |-> r.captured.rles]
                /\ ~sessionOpen']_vars

\* a save succeeded for a collection of two candidates of which one had no rle:
\* onUpdateAnnotation got the one entry and the session is closed
C40_Witness ==
    /\ ~sessionOpen
    /\ updatedWith # Null
    /\ Len(updatedWith.rles) = 1
    /\ Len(masks) = 2
    /\ Cardinality(SavablePlaces) = 1
    /\ IsListOfSavable(updatedWith.rles)

====
